---- MODULE Spec2Model ----
(***************************************************************************)
(* Model of the resumable geocoding pipeline of address-geocoding-system:  *)
(* GeocodingService (clean_address, geocode_address), CacheService,        *)
(* GeocodingViewModel (load_addresses, process_batch,                      *)
(* process_all_addresses, save_results) and main().                        *)
(*                                                                         *)
(* Text is modelled as a sequence of tokens.  A token is one character,    *)
(* except that "J" stands for the text "Jumia- Pargo- Pickup station" and  *)
(* "P" for the text "Point 192", which occur in the code only as the       *)
(* heads of the two markers removed by clean_address.  No other token      *)
(* starts with the first letter of either text, so an occurrence of a      *)
(* marker in the text is an occurrence of its tokens in the sequence.      *)
(* An Optional value is a sequence of length at most one: None is <<>>.    *)
(***************************************************************************)
EXTENDS Integers, Sequences, FiniteSets, TLC

\* ------------------------------------------------------------------ bounds
MaxLen == 6
MaxRows == 3
MaxBatchSize == 2
MaxResumeRows == 2
MaxIoFailures == 1
MaxRuns == 2

\* ------------------------------------------------------------------- text
SPACE == " "
DASH == "-"
COMMA == ","
\* the token of the double quote character
QUOTE == "'"

\* "Jumia- Pargo- Pickup station -"
MARKER_JUMIA == <<"J", SPACE, DASH>>
\* "Point 192 -"
MARKER_POINT == <<"P", SPACE, DASH>>

Alphabet == {"J", "P", SPACE, DASH, COMMA, "A"}

RECURSIVE StringsOfLen(_)
StringsOfLen(n) ==
    IF n = 0 THEN {<<>>}
    ELSE {<<c>> \o s : c \in Alphabet, s \in StringsOfLen(n - 1)}

StringsUpTo(len) == UNION {StringsOfLen(n) : n \in 0..len}

StartsWith(s, m) == Len(s) >= Len(m) /\ SubSeq(s, 1, Len(m)) = m

\* s contains m as a substring
Contains(s, m) ==
    \E i \in 1..(Len(s) - Len(m) + 1) : SubSeq(s, i, i + Len(m) - 1) = m

\* str.replace(old, ""): leftmost, non-overlapping occurrences, one pass
RECURSIVE Replace(_, _)
Replace(s, old) ==
    IF Len(s) < Len(old) THEN s
    ELSE IF StartsWith(s, old)
         THEN Replace(SubSeq(s, Len(old) + 1, Len(s)), old)
         ELSE <<Head(s)>> \o Replace(Tail(s), old)

\* str.split(",")[0]: the text before the first comma
RECURSIVE SplitFirst(_)
SplitFirst(s) ==
    IF s = <<>> \/ Head(s) = COMMA THEN <<>>
    ELSE <<Head(s)>> \o SplitFirst(Tail(s))

RECURSIVE LStrip(_, _)
LStrip(s, chars) ==
    IF s # <<>> /\ Head(s) \in chars THEN LStrip(Tail(s), chars) ELSE s

RECURSIVE RStrip(_, _)
RStrip(s, chars) ==
    IF s # <<>> /\ s[Len(s)] \in chars
    THEN RStrip(SubSeq(s, 1, Len(s) - 1), chars)
    ELSE s

\* str.strip(chars)
Strip(s, chars) == RStrip(LStrip(s, chars), chars)

\* GeocodingService.clean_address (the isinstance test is met by every
\* value of the model: rows are text)
clean_address(address) ==
    Strip(SplitFirst(Replace(Replace(address, MARKER_JUMIA), MARKER_POINT)),
          {SPACE})


\* ------------------------------------------------------- Optional, dicts
None == <<>>
Some(x) == <<x>>

\* the failed marker (None, None)
FAILED == <<None, None>>

EmptyDict == [k \in {} |-> FAILED]

\* dict.get(key): None when the key is absent
DictGet(d, key) == IF key \in DOMAIN d THEN Some(d[key]) ELSE None

\* a set that keeps the value of a key already present
DictSet_keep_first(d, key, value) ==
    [k \in DOMAIN d \cup {key} |-> IF k \in DOMAIN d THEN d[k] ELSE value]

\* d[key] = value
DictSet(d, key, value) ==
    [k \in DOMAIN d \cup {key} |-> IF k = key THEN value ELSE d[k]]

\* ------------------------------------------------------------ the input
\* the CSV cell  A, city
ROW_A == <<"A", COMMA, SPACE, "c", "i", "t", "y">>
\* the CSV cell  Point 192 - B
ROW_B == <<"P", SPACE, DASH, SPACE, "B">>

RowPool == {ROW_A, ROW_B}

Inputs == UNION {[1..n -> RowPool] : n \in 0..MaxRows}

BatchSizes == 1..MaxBatchSize

\* ------------------------------------------------- the external geocoder
\* What the external lookup does for an address: it finds a location, finds
\* no match, raises, or ("flaky") does any of the three from call to call.
Behaviours == {"found", "none", "raise", "flaky"}

LocationOf(address) ==
    IF address = <<"A">>
    THEN [kind |-> "location", latitude |-> 1, longitude |-> 2]
    ELSE [kind |-> "location", latitude |-> 3, longitude |-> 4]

NoMatch == [kind |-> "none", latitude |-> 0, longitude |-> 0]
Raises == [kind |-> "raise", latitude |-> 0, longitude |-> 0]

\* ------------------------------------------------------- configuration
\* GeocodingConfig.delay_between_requests, 1.5 s, in half seconds
delay_between_requests == 3
\* time.sleep(2) between batches, in half seconds
BATCH_PAUSE == 4
\* "Save cache every 100 addresses"
SAVE_EVERY == 100

\* values of save_progress_every in config.json: the default and one that
\* asks for a flush after every record
SaveCadences == {1, SAVE_EVERY}

VARIABLES
    input,        \* the rows of the input CSV file
    batch_size,   \* config.batch_size
    save_progress_every,  \* ProcessingConfig.save_progress_every
    geocoder,     \* address -> behaviour of the external lookup
    cacheFile,    \* the cache file: [kind, data]
    outputs,      \* the result files: [csv, json, py, written]
    pc,           \* where main() is
    ret,          \* where save_cache returns to
    prevExit,     \* how the previous process ended
    cache,        \* CacheService._cache
    loaded,       \* what load_cache read when this process started
    addresses,    \* GeocodingViewModel.addresses
    stats,        \* GeocodingViewModel.stats
    batch_num,    \* loop variable of process_all_addresses
    batch_stats,  \* local of process_batch
    since,        \* half seconds since the RateLimiter's last call
    calls,        \* external calls of this process, per address
    last_lookup,  \* the last geocode_address call of this process
    checkpointed, \* the cache as of the last completed batch checkpoint
    flushed,      \* the batch save_results, save_cache and time.sleep(2)
                  \* were last called for
    io_failures   \* file operations that have raised so far

pvars == <<input, batch_size, save_progress_every, geocoder, cacheFile, outputs, pc, ret,
           prevExit, cache, loaded, addresses, stats, batch_num, batch_stats,
           since, calls, last_lookup, checkpointed, flushed, io_failures>>

VARIABLES raw, once, twice, cpc

cvars == <<raw, once, twice, cpc>>

\* a CacheService used directly: what its caller has set, what of that the
\* last successful save_cache wrote, and what the last get returned
VARIABLES api

\* two threads, each in a geocode_address call on the shared services
VARIABLES workers

\* one lookup made through GeocodingService.geocode_address and through the
\* legacy get_lat_long_cached, from the same cache and with the same answer
\* of the external service
VARIABLES lookup

vars == <<pvars, cvars, api, workers, lookup>>

\* ------------------------------------------------------------- services
Cleaned == {clean_address(Strip(r, {QUOTE})) : r \in RowPool}

\* what one call of the external lookup may answer for an address
Responses(address) ==
    CASE geocoder[address] = "found" -> {LocationOf(address)}
      [] geocoder[address] = "none" -> {NoMatch}
      [] geocoder[address] = "raise" -> {Raises}
      [] OTHER -> {LocationOf(address), NoMatch, Raises}

AbsentFile == [kind |-> "absent", data |-> EmptyDict]
\* a file opened with 'wb' and not (or not fully) written: a file that
\* exists and whose open or pickle.load raises
TruncatedFile == [kind |-> "corrupt", data |-> EmptyDict]
ValidFile(d) == [kind |-> "valid", data |-> d]

\* CacheService.load_cache: the file's mapping, {} when the file is
\* missing or pickle.load raises
load_cache(file) == IF file.kind = "valid" THEN file.data ELSE EmptyDict

\* GeocodingViewModel.__init__ with a load_cache that lets the error of
\* open or pickle.load out: main reports the failure
AfterLoadCache_fatal(file) ==
    IF file.kind = "corrupt" THEN "failed" ELSE "constructed"

\* GeocodingViewModel.__init__ after load_cache: the view model is built
\* whatever the file was
AfterLoadCache(file) == "constructed"

\* a RateLimiter built without the configured delay
RateLimiterReady_no_delay(elapsed) == TRUE

\* RateLimiter(min_delay_seconds=config.delay_between_requests): the wrapped
\* call goes out once that long has passed since the previous one
RateLimiterReady(elapsed) ==
    IF elapsed = None THEN TRUE ELSE elapsed[1] >= delay_between_requests

\* geocode_address taking a cached (None, None) for a miss
geocode_address_retries_failed(c, address, response) ==
    LET cached_result == DictGet(c, address) IN
    IF cached_result # None /\ cached_result[1] # FAILED
    THEN [result |-> cached_result[1], cache |-> c,
          called |-> FALSE, raised |-> FALSE]
    ELSE IF response.kind = "location"
         THEN LET result == <<Some(response.latitude),
                              Some(response.longitude)>>
              IN [result |-> result, cache |-> DictSet(c, address, result),
                  called |-> TRUE, raised |-> FALSE]
         ELSE [result |-> FAILED, cache |-> DictSet(c, address, FAILED),
               called |-> TRUE, raised |-> FALSE]

\* geocode_address answering a cache hit with (None, None)
geocode_address_hit_failed(c, address, response) ==
    LET cached_result == DictGet(c, address) IN
    IF cached_result # None
    THEN [result |-> FAILED, cache |-> c, called |-> FALSE, raised |-> FALSE]
    ELSE IF response.kind = "location"
         THEN LET result == <<Some(response.latitude),
                              Some(response.longitude)>>
              IN [result |-> result, cache |-> DictSet(c, address, result),
                  called |-> TRUE, raised |-> FALSE]
         ELSE [result |-> FAILED, cache |-> DictSet(c, address, FAILED),
               called |-> TRUE, raised |-> FALSE]

\* geocode_address without the try around the external call
geocode_address_propagates(c, address, response) ==
    LET cached_result == DictGet(c, address) IN
    IF cached_result # None
    THEN [result |-> cached_result[1], cache |-> c,
          called |-> FALSE, raised |-> FALSE]
    ELSE IF response.kind = "location"
         THEN LET result == <<Some(response.latitude),
                              Some(response.longitude)>>
              IN [result |-> result, cache |-> DictSet(c, address, result),
                  called |-> TRUE, raised |-> FALSE]
         ELSE IF response.kind = "raise"
              THEN [result |-> FAILED, cache |-> c,
                    called |-> TRUE, raised |-> TRUE]
              ELSE [result |-> FAILED, cache |-> DictSet(c, address, FAILED),
                    called |-> TRUE, raised |-> FALSE]

\* geocode_address caching a failure only when the call raised
geocode_address_no_match_uncached(c, address, response) ==
    LET cached_result == DictGet(c, address) IN
    IF cached_result # None
    THEN [result |-> cached_result[1], cache |-> c,
          called |-> FALSE, raised |-> FALSE]
    ELSE IF response.kind = "location"
         THEN LET result == <<Some(response.latitude),
                              Some(response.longitude)>>
              IN [result |-> result, cache |-> DictSet(c, address, result),
                  called |-> TRUE, raised |-> FALSE]
         ELSE IF response.kind = "raise"
              THEN [result |-> FAILED, cache |-> DictSet(c, address, FAILED),
                    called |-> TRUE, raised |-> FALSE]
              ELSE [result |-> FAILED, cache |-> c,
                    called |-> TRUE, raised |-> FALSE]

\* geocode_address without the cache check
geocode_address_no_cache_check(c, address, response) ==
    IF response.kind = "location"
    THEN LET result == <<Some(response.latitude), Some(response.longitude)>>
         IN [result |-> result, cache |-> DictSet(c, address, result),
             called |-> TRUE, raised |-> FALSE]
    ELSE [result |-> FAILED, cache |-> DictSet(c, address, FAILED),
          called |-> TRUE, raised |-> FALSE]

\* GeocodingService.geocode_address on cache contents c, where `response`
\* is what self.geocode(address) answers if it is called
geocode_address(c, address, response) ==
    LET cached_result == DictGet(c, address) IN
    IF cached_result # None
    THEN [result |-> cached_result[1], cache |-> c,
          called |-> FALSE, raised |-> FALSE]
    ELSE IF response.kind = "location"
         THEN LET result == <<Some(response.latitude),
                              Some(response.longitude)>>
              IN [result |-> result, cache |-> DictSet(c, address, result),
                  called |-> TRUE, raised |-> FALSE]
         ELSE [result |-> FAILED, cache |-> DictSet(c, address, FAILED),
               called |-> TRUE, raised |-> FALSE]

\* ---------------------------------------------------------------- models
\* Address.is_geocoded
is_geocoded(a) == a.latitude # None /\ a.longitude # None

\* coordinates written as "lng,lat"
coordinates_swapped(a) ==
    IF a.latitude # None /\ a.longitude # None
    THEN Some(<<a.longitude[1], COMMA, a.latitude[1]>>)
    ELSE None

\* Address.coordinates: "lat,lng"
coordinates(a) ==
    IF is_geocoded(a) THEN Some(<<a.latitude[1], COMMA, a.longitude[1]>>)
    ELSE None

ZeroStats ==
    [total_addresses |-> 0, processed_addresses |-> 0,
     successful_geocodes |-> 0, failed_geocodes |-> 0,
     current_batch |-> 0, total_batches |-> 0]

\* ProcessingStats.progress_percentage, in whole percent
progress_percentage(st) ==
    IF st.total_addresses = 0 THEN 0
    ELSE (st.processed_addresses * 100) \div st.total_addresses

\* ProcessingStats.success_rate, in whole percent
success_rate(st) ==
    IF st.processed_addresses = 0 THEN 0
    ELSE (st.successful_geocodes * 100) \div st.processed_addresses

ZeroBatchStats == [processed |-> 0, successful |-> 0]

\* ------------------------------------------------------------- viewmodel
\* the rows load_addresses builds from the CSV
LoadedAddresses(rows) ==
    [i \in 1..Len(rows) |->
        LET original == Strip(rows[i], {QUOTE}) IN
        [original |-> original, cleaned |-> clean_address(original),
         latitude |-> None, longitude |-> None]]

\* len // batch_size
TotalBatches_floor(n, size) == n \div size

\* len // batch_size + 1
TotalBatches_one_more(n, size) == n \div size + 1

\* (len + batch_size - 1) // batch_size
TotalBatches(n, size) == (n + size - 1) \div size

Min(a, b) == IF a < b THEN a ELSE b

start_idx == (batch_num - 1) * batch_size
end_idx == Min(start_idx + batch_size, Len(addresses))
\* len(batch_addresses)
BatchLen == end_idx - start_idx

\* the records (counted from 1) of self.addresses[start_idx:end_idx] in
\* turn n of the loop of process_all_addresses
batch_addresses(n) ==
    {k \in 1..Len(addresses) :
        /\ k > (n - 1) * batch_size
        /\ k <= Min((n - 1) * batch_size + batch_size, Len(addresses))}

\* save_results: the table written to the CSV
ResultTable(as) ==
    [i \in 1..Len(as) |->
        [original |-> as[i].original, cleaned |-> as[i].cleaned,
         latitude |-> as[i].latitude, longitude |-> as[i].longitude]]

\* save_results: coordinate_map, original -> "lat,lng" of the geocoded
\* records, a later record replacing an earlier one with the same original
RECURSIVE CoordinateMapUpTo(_, _)
CoordinateMapUpTo(as, n) ==
    IF n = 0 THEN [k \in {} |-> <<>>]
    ELSE LET m == CoordinateMapUpTo(as, n - 1) IN
         IF is_geocoded(as[n])
         THEN DictSet(m, as[n].original, coordinates(as[n])[1])
         ELSE m

CoordinateMap(as) == CoordinateMapUpTo(as, Len(as))

\* no thread besides the one of main()
NoWorkers == <<>>

\* no lookup made outside the pipeline
NoLookup == <<>>

\* a CacheService nobody has called yet
ApiIdle ==
    [last_set |-> EmptyDict, persisted |-> EmptyDict, save_ok |-> FALSE,
     got |-> None, reloaded |-> FALSE]

\* neither save_results nor save_cache nor time.sleep has been called by
\* the batch loop
NotFlushed == [results |-> 0, cache |-> 0, paused |-> 0]

NoOutputs == [csv |-> None, json |-> None, py |-> None, written |-> 0]

\* save_results writing its first k files (all three when nothing fails)
SavedOutputs(old, as, st, k) ==
    [csv |-> IF k >= 1 THEN Some(ResultTable(as)) ELSE old.csv,
     json |-> IF k >= 2 THEN Some(CoordinateMap(as)) ELSE old.json,
     py |-> IF k >= 3
            THEN Some([map |-> CoordinateMap(as),
                       total |-> st.total_addresses,
                       rate |-> success_rate(st)])
            ELSE old.py,
     written |-> k]

Exited == {"idle", "done", "failed", "interrupted", "crashed"}

\* process_all_addresses pausing after every batch
AfterCheckpoint_always_pause == "pacing"

\* process_all_addresses returning True after its first batch
AfterCheckpoint_returns_early == "done"

\* where process_all_addresses goes after the checkpoint of a batch
AfterCheckpoint ==
    IF batch_num < stats.total_batches THEN "pacing" ELSE "done"

\* process_all_addresses after process_batch, the checkpoint left out
AfterBatch_no_checkpoint == AfterCheckpoint

\* where process_all_addresses goes when process_batch returns
AfterBatch == "save_results"

\* where save_cache returns to
AfterSave ==
    CASE ret = "batch" -> "batch"
      [] ret = "api" -> "api"
      [] OTHER -> AfterCheckpoint

\* save_cache letting the error of open or pickle.dump out:
\* process_all_addresses catches it and returns False
AfterSaveError_propagates == "failed"

\* save_cache after "except Exception": it returns as if it had saved
AfterSaveError == AfterSave

\* ---------------------------------------------------------------- actions
\* whether a file operation succeeds: it may raise while the number of
\* failures is below MaxIoFailures
MayFail == IF io_failures < MaxIoFailures THEN BOOLEAN ELSE {TRUE}

Failures(succeeded) == IF succeeded THEN io_failures ELSE io_failures + 1

CleanIdle ==
    /\ raw = <<>>
    /\ once = <<>>
    /\ twice = <<>>
    /\ cpc = "off"

Init ==
    /\ input \in Inputs
    /\ batch_size \in BatchSizes
    /\ save_progress_every \in SaveCadences
    /\ geocoder \in [Cleaned -> Behaviours]
    /\ cacheFile = AbsentFile
    /\ outputs = NoOutputs
    /\ pc = "idle"
    /\ ret = "checkpoint"
    /\ prevExit = "none"
    /\ cache = EmptyDict
    /\ loaded = EmptyDict
    /\ addresses = <<>>
    /\ stats = ZeroStats
    /\ batch_num = 0
    /\ batch_stats = ZeroBatchStats
    /\ since = None
    /\ calls = [a \in Cleaned |-> 0]
    /\ last_lookup = None
    /\ checkpointed = EmptyDict
    /\ flushed = NotFlushed
    /\ api = ApiIdle
    /\ workers = NoWorkers
    /\ lookup = NoLookup
    /\ io_failures = 0
    /\ CleanIdle

\* main() up to GeocodingViewModel.__init__: a new process with new
\* services, the cache read by load_cache
NewProcess ==
    /\ prevExit' = CASE pc = "done" /\ cacheFile = ValidFile(cache) -> "done_saved"
                     [] pc = "idle" -> "none"
                     [] OTHER -> pc
    /\ cache' = load_cache(cacheFile)
    /\ loaded' = cache'
    /\ addresses' = <<>>
    /\ stats' = ZeroStats
    /\ batch_num' = 0
    /\ batch_stats' = ZeroBatchStats
    /\ since' = None
    /\ calls' = [a \in Cleaned |-> 0]
    /\ last_lookup' = None
    /\ ret' = "checkpoint"
    /\ pc' = AfterLoadCache(cacheFile)
    /\ flushed' = NotFlushed
    /\ UNCHANGED <<input, batch_size, save_progress_every, geocoder, cacheFile, outputs,
                   checkpointed, io_failures, cvars, workers, api, lookup>>

\* the program is started for the first time
Start ==
    /\ pc = "idle"
    /\ NewProcess

\* the program is started again, with the files the earlier processes left
Restart ==
    /\ pc \in Exited \ {"idle"}
    /\ NewProcess

\* load_addresses: the CSV is read (or reading raises and main gives up)
LoadAddresses ==
    /\ pc = "constructed"
    /\ \E readable \in MayFail :
        /\ io_failures' = Failures(readable)
        /\ IF readable
           THEN /\ addresses' = LoadedAddresses(input)
                /\ stats' = [stats EXCEPT
                       !.total_addresses = Len(input),
                       !.total_batches = TotalBatches(Len(input), batch_size)]
                /\ pc' = "loaded"
           ELSE /\ pc' = "failed"
                /\ UNCHANGED <<addresses, stats>>
    /\ UNCHANGED <<input, batch_size, save_progress_every, geocoder, cacheFile, outputs, ret,
                   prevExit, cache, loaded, batch_num, batch_stats, since,
                   calls, last_lookup, checkpointed, flushed, cvars, workers, api, lookup>>

\* process_all_addresses without its first test
NothingToProcess_never(as) == FALSE

\* process_all_addresses: "if not self.addresses"
NothingToProcess(as) == as = <<>>

\* process_all_addresses up to the first batch
ProcessAllBegin ==
    /\ pc = "loaded"
    /\ IF NothingToProcess(addresses)
       THEN pc' = "failed" /\ UNCHANGED <<batch_num, batch_stats>>
       ELSE /\ batch_num' = 1
            /\ batch_stats' = ZeroBatchStats
            /\ pc' = "batch"
    /\ UNCHANGED <<input, batch_size, save_progress_every, geocoder, cacheFile, outputs, ret,
                   prevExit, cache, loaded, addresses, stats, since, calls,
                   last_lookup, checkpointed, io_failures, flushed, cvars, workers, api, lookup>>

\* an assignment that reaches every record of the same cleaned address,
\* as if equal addresses shared one Address object
AssignCoordinates_shared(as, i, result) ==
    [k \in 1..Len(as) |->
        IF as[k].cleaned = as[i].cleaned
        THEN [as[k] EXCEPT !.latitude = result[1], !.longitude = result[2]]
        ELSE as[k]]

\* process_batch: address.latitude = lat; address.longitude = lng, for
\* the record at position i
AssignCoordinates(as, i, result) ==
    [as EXCEPT ![i].latitude = result[1], ![i].longitude = result[2]]

\* one turn of the loop of process_batch
ProcessRecord ==
    /\ pc = "batch"
    /\ batch_stats.processed < BatchLen
    /\ LET i == start_idx + batch_stats.processed + 1
           address == addresses[i]
       IN \E response \in Responses(address.cleaned) :
          LET r == geocode_address(cache, address.cleaned, response)
              geocoded == r.result[1] # None /\ r.result[2] # None
              processed == batch_stats.processed + 1
          IN /\ r.called => RateLimiterReady(since)
             /\ cache' = r.cache
             /\ calls' = IF r.called
                         THEN [calls EXCEPT ![address.cleaned] = @ + 1]
                         ELSE calls
             /\ since' = IF r.called THEN Some(0) ELSE since
             /\ last_lookup' =
                    Some([index |-> i,
                          address |-> address.cleaned,
                          response |-> IF r.called THEN response.kind
                                       ELSE "not called",
                          called |-> r.called,
                          raised |-> r.raised,
                          result |-> r.result])
             /\ IF r.raised
                THEN /\ pc' = "failed"
                     /\ UNCHANGED <<addresses, batch_stats, ret>>
                ELSE /\ addresses' = AssignCoordinates(addresses, i, r.result)
                     /\ batch_stats' =
                            [processed |-> processed,
                             successful |-> batch_stats.successful
                                            + (IF geocoded THEN 1 ELSE 0)]
                     /\ IF processed % SAVE_EVERY = 0
                        THEN pc' = "save_cache_open" /\ ret' = "batch"
                        ELSE pc' = "batch" /\ UNCHANGED ret
    /\ UNCHANGED <<input, batch_size, save_progress_every, geocoder, cacheFile, outputs,
                   prevExit, loaded, stats, batch_num, checkpointed, io_failures, flushed, cvars, workers, api, lookup>>

\* "Update overall stats" with failed_geocodes taken from the batch alone
UpdateOverallStats_batch_failed(st, bs, n) ==
    [st EXCEPT
        !.processed_addresses = st.processed_addresses + bs.processed,
        !.successful_geocodes = st.successful_geocodes + bs.successful,
        !.failed_geocodes = bs.processed - bs.successful,
        !.current_batch = n]

\* "Update overall stats" assigning the counts of the batch, not adding them
UpdateOverallStats_assigns(st, bs, n) ==
    [st EXCEPT
        !.processed_addresses = bs.processed,
        !.successful_geocodes = bs.successful,
        !.failed_geocodes = bs.processed - bs.successful,
        !.current_batch = n]

\* process_batch: "Update overall stats", for batch n with counts bs
UpdateOverallStats(st, bs, n) ==
    LET processed == st.processed_addresses + bs.processed
        successful == st.successful_geocodes + bs.successful
    IN [st EXCEPT
            !.processed_addresses = processed,
            !.successful_geocodes = successful,
            !.failed_geocodes = processed - successful,
            !.current_batch = n]

\* the end of process_batch: "Update overall stats"
BatchEnd ==
    /\ pc = "batch"
    /\ batch_stats.processed = BatchLen
    /\ stats' = UpdateOverallStats(stats, batch_stats, batch_num)
    /\ pc' = AfterBatch
    /\ UNCHANGED <<input, batch_size, save_progress_every, geocoder, cacheFile, outputs, ret,
                   prevExit, cache, loaded, addresses, batch_num, batch_stats,
                   since, calls, last_lookup, checkpointed, io_failures, flushed, cvars, workers, api, lookup>>

\* save_results letting the error of a write out: process_all_addresses
\* catches it and returns False
AfterSaveResults_propagates(k) ==
    IF k < 3 THEN "failed" ELSE "save_cache_open"

\* save_results after "except Exception": it returns, whether its first k
\* writes or all three were made, and save_cache is called next
AfterSaveResults(k) == "save_cache_open"

\* save_results: the three files in turn; a write that raises ends it
SaveResults ==
    /\ pc = "save_results"
    /\ \E k \in 0..3 :
        /\ k < 3 => io_failures < MaxIoFailures
        /\ io_failures' = Failures(k = 3)
        /\ outputs' = SavedOutputs(outputs, addresses, stats, k)
        /\ pc' = AfterSaveResults(k)
    /\ ret' = "checkpoint"
    /\ flushed' = [flushed EXCEPT !.results = batch_num]
    /\ UNCHANGED <<input, batch_size, save_progress_every, geocoder, cacheFile, prevExit,
                   cache, loaded, addresses, stats, batch_num, batch_stats,
                   since, calls, last_lookup, checkpointed, cvars, workers, api, lookup>>

\* save_cache: open(cache_file, 'wb') empties the file, or raises
SaveCacheOpen ==
    /\ pc = "save_cache_open"
    /\ \E opened \in MayFail :
        /\ io_failures' = Failures(opened)
        /\ IF opened
           THEN cacheFile' = TruncatedFile /\ pc' = "save_cache_dump"
           ELSE pc' = AfterSaveError /\ UNCHANGED cacheFile
    /\ api' = IF ret = "api" THEN [api EXCEPT !.save_ok = FALSE] ELSE api
    /\ flushed' = IF ret = "checkpoint"
                  THEN [flushed EXCEPT !.cache = batch_num]
                  ELSE flushed
    /\ UNCHANGED <<input, batch_size, save_progress_every, geocoder, outputs, ret, prevExit,
                   cache, loaded, addresses, stats, batch_num, batch_stats,
                   since, calls, last_lookup, checkpointed, cvars, workers, lookup>>

\* save_cache: pickle.dump writes the mapping, or raises part way
SaveCacheDump ==
    /\ pc = "save_cache_dump"
    /\ \E dumped \in MayFail :
        /\ io_failures' = Failures(dumped)
        /\ IF dumped
           THEN /\ cacheFile' = ValidFile(cache)
                /\ checkpointed' = IF ret = "checkpoint" THEN cache
                                   ELSE checkpointed
                /\ pc' = AfterSave
                /\ api' = IF ret = "api"
                          THEN [api EXCEPT !.save_ok = TRUE,
                                           !.persisted = api.last_set]
                          ELSE api
           ELSE /\ pc' = AfterSaveError
                /\ UNCHANGED <<cacheFile, checkpointed, api>>
    /\ UNCHANGED <<input, batch_size, save_progress_every, geocoder, outputs, ret, prevExit,
                   cache, loaded, addresses, stats, batch_num, batch_stats,
                   since, calls, last_lookup, flushed, cvars, workers, lookup>>

\* time.sleep(2), then the next batch
Pacing ==
    /\ pc = "pacing"
    /\ since' = IF since = None THEN None
                ELSE Some(Min(since[1] + BATCH_PAUSE, delay_between_requests))
    /\ batch_num' = batch_num + 1
    /\ batch_stats' = ZeroBatchStats
    /\ pc' = "batch"
    /\ flushed' = [flushed EXCEPT !.paused = batch_num]
    /\ UNCHANGED <<input, batch_size, save_progress_every, geocoder,
                   cacheFile, outputs, ret, prevExit, cache, loaded,
                   addresses, stats, calls, last_lookup, checkpointed,
                   io_failures, cvars, workers, api, lookup>>

\* whether the next record of the batch is missing from the cache
NextIsMiss ==
    /\ batch_stats.processed < BatchLen
    /\ DictGet(cache, addresses[start_idx + batch_stats.processed + 1].cleaned)
          = None

\* The RateLimiter sleeps for what is left of the delay, the previous call
\* being less than the delay ago.  Time passes only here and in the pause
\* between batches: cache lookups and file writes take none, which is the
\* least time the code can let pass between two external calls.
Sleep ==
    /\ pc = "batch"
    /\ NextIsMiss
    /\ ~RateLimiterReady(since)
    /\ since' = Some(delay_between_requests)
    /\ UNCHANGED <<input, batch_size, save_progress_every, geocoder, cacheFile, outputs, pc, ret,
                   prevExit, cache, loaded, addresses, stats, batch_num,
                   batch_stats, calls, last_lookup, checkpointed, io_failures, flushed, cvars, workers, api, lookup>>

\* KeyboardInterrupt: no handler of the view model or the services catches
\* it (they catch Exception); main() logs it and returns False
Interrupt ==
    /\ pc \notin Exited
    /\ pc' = "interrupted"
    /\ UNCHANGED <<input, batch_size, save_progress_every, geocoder, cacheFile, outputs, ret,
                   prevExit, cache, loaded, addresses, stats, batch_num,
                   batch_stats, since, calls, last_lookup, checkpointed,
                   io_failures, flushed, cvars, workers, api, lookup>>

\* the process is killed
Crash ==
    /\ pc \notin Exited
    /\ pc' = "crashed"
    /\ cache' = EmptyDict
    /\ loaded' = EmptyDict
    /\ addresses' = <<>>
    /\ stats' = ZeroStats
    /\ batch_num' = 0
    /\ batch_stats' = ZeroBatchStats
    /\ since' = None
    /\ calls' = [a \in Cleaned |-> 0]
    /\ last_lookup' = None
    /\ ret' = "checkpoint"
    /\ flushed' = NotFlushed
    /\ UNCHANGED <<input, batch_size, save_progress_every, geocoder, cacheFile, outputs,
                   prevExit, checkpointed, io_failures, cvars, workers, api, lookup>>

\* the steps of the program
Run ==
    \/ Start
    \/ LoadAddresses
    \/ ProcessAllBegin
    \/ ProcessRecord
    \/ BatchEnd
    \/ SaveResults
    \/ SaveCacheOpen
    \/ SaveCacheDump
    \/ Pacing
    \/ Sleep

Next == Run \/ Interrupt

\* one process: the program is started once, and may be interrupted
Spec == Init /\ [][Next]_vars

\* one process that nobody interrupts: main() is a sequential program, so
\* a step that can be taken is taken; the external lookup answers every
\* call (a call that never answers is not a step of the model)
InitLive == Init /\ save_progress_every = SAVE_EVERY

SpecLive == InitLive /\ [][Run]_vars /\ WF_vars(Run)

\* the external lookup answers every address the same way every time
Deterministic == \A a \in Cleaned : geocoder[a] # "flaky"

\* any number of processes, one after the other, over the same files and
\* with the same external lookup: each runs to its end or is killed
InitResume ==
    /\ Init
    /\ Len(input) <= MaxResumeRows
    /\ Deterministic

NextResume == Run \/ Crash \/ Restart

SpecResume == InitResume /\ [][NextResume]_vars

\* ----------------------------------------------------------------- claims
RECURSIVE SumCalls(_)
SumCalls(as) ==
    IF as = {} THEN 0
    ELSE LET a == CHOOSE x \in as : TRUE IN calls[a] + SumCalls(as \ {a})

\* external calls made by the current process
TotalCalls == SumCalls(Cleaned)

\* the (latitude, longitude) of a record
Coords(a) == <<a.latitude, a.longitude>>

ResolvedCount(as) == Cardinality({i \in 1..Len(as) : is_geocoded(as[i])})

\* a batch is being processed
InBatch == batch_num >= 1 /\ stats.current_batch < batch_num

\* C1 as stated: a second run started with the cache file left by a
\* completed first run makes no external call.
C1_SecondRunMakesNoCalls ==
    prevExit \in {"done", "done_saved"} =>
        /\ TotalCalls = 0
        /\ \A i \in 1..Len(addresses) :
              (pc = "done" /\ addresses[i].cleaned \in DOMAIN loaded) =>
                  Coords(addresses[i]) = loaded[addresses[i].cleaned]

\* C1, amended: a run makes no external call for an address whose key is in
\* the cache it loaded and gives its records the loaded outcome, coordinates
\* or (None, None); and a run started with a cache file that holds the final
\* cache of a completed previous run over the same input makes no external
\* call at all.
C1_LoadedEntriesAnswerWithoutCalls ==
    /\ \A a \in DOMAIN loaded : calls[a] = 0
    /\ \A i \in 1..Len(addresses) :
          addresses[i].cleaned \in DOMAIN loaded =>
              /\ Coords(addresses[i]) \in {FAILED, loaded[addresses[i].cleaned]}
              /\ pc = "done" =>
                    Coords(addresses[i]) = loaded[addresses[i].cleaned]
    /\ prevExit = "done_saved" => TotalCalls = 0

C1_Witness ==
    /\ prevExit = "done_saved"
    /\ pc = "done"
    /\ TotalCalls = 0
    /\ \E i, j \in 1..Len(addresses) :
          /\ loaded[addresses[i].cleaned] = FAILED
          /\ ~is_geocoded(addresses[i])
          /\ loaded[addresses[j].cleaned] # FAILED
          /\ is_geocoded(addresses[j])

\* the rows of the input the external lookup resolves
ExpectedResolved ==
    Cardinality({i \in 1..Len(input) :
        geocoder[clean_address(Strip(input[i], {QUOTE}))] = "found"})

\* C2: with a deterministic external lookup, the number of resolved
\* addresses of a completed run is the same whatever interruptions and
\* restarts came before it.
C2_ResolvedCountIndependentOfRestarts ==
    (Deterministic /\ pc = "done") =>
        /\ ResolvedCount(addresses) = ExpectedResolved
        /\ stats.successful_geocodes = ExpectedResolved

C2_Witness ==
    /\ Deterministic
    /\ pc = "done"
    /\ prevExit = "crashed"
    /\ loaded # EmptyDict
    /\ TotalCalls >= 1
    /\ ExpectedResolved >= 1
    /\ ExpectedResolved < Len(input)

\* C3: the cache loaded after a crash holds every entry of the batches
\* checkpointed before the crash.
C3_CheckpointedEntriesSurviveCrash ==
    (pc = "constructed" /\ prevExit = "crashed" /\ io_failures = 0) =>
        \A k \in DOMAIN checkpointed :
            k \in DOMAIN cache /\ cache[k] = checkpointed[k]

\* C4: when a KeyboardInterrupt arrives while a batch is processed, every
\* cache entry and every record coordinate resolved before it is in the
\* cache file and in the result output when the program exits.
C4_InterruptFlushesProgress ==
    (pc = "interrupted" /\ InBatch /\ io_failures = 0) =>
        /\ \A k \in DOMAIN cache :
              /\ cacheFile.kind = "valid"
              /\ k \in DOMAIN cacheFile.data
              /\ cacheFile.data[k] = cache[k]
        /\ \A i \in 1..Len(addresses) :
              is_geocoded(addresses[i]) =>
                  /\ outputs.csv # None
                  /\ outputs.csv[1][i].latitude = addresses[i].latitude
                  /\ outputs.csv[1][i].longitude = addresses[i].longitude

\* C5: geocode_address never propagates an error of the external lookup:
\* when the call raises or finds no match it returns (None, None) and the
\* cache holds (None, None) for the address; when it finds a location it
\* returns and caches (latitude, longitude).
C5_LookupErrorsBecomeFailed ==
    last_lookup # None =>
        LET l == last_lookup[1]
            loc == LocationOf(l.address)
        IN /\ ~l.raised
           /\ l.response \in {"none", "raise"} =>
                 /\ l.result = FAILED
                 /\ DictGet(cache, l.address) = Some(FAILED)
           /\ l.response = "location" =>
                 /\ l.result = <<Some(loc.latitude), Some(loc.longitude)>>
                 /\ DictGet(cache, l.address) = Some(l.result)

C5_Witness ==
    /\ last_lookup # None
    /\ last_lookup[1].response = "raise"
    /\ pc = "done"
    /\ \E a \in Cleaned :
          DictGet(cache, a) = Some(<<Some(LocationOf(a).latitude),
                                     Some(LocationOf(a).longitude)>>)

\* C6: within one run the external lookup is called at most once per
\* distinct normalized address.
C6_AtMostOneCallPerAddress == \A a \in Cleaned : calls[a] <= 1

C6_Witness ==
    /\ pc = "done"
    /\ stats.total_batches >= 2
    /\ \E i, j \in 1..Len(addresses) :
          /\ (i - 1) \div batch_size < (j - 1) \div batch_size
          /\ addresses[i].cleaned = addresses[j].cleaned
          /\ calls[addresses[i].cleaned] = 1
          /\ cache[addresses[i].cleaned] = FAILED

\* C7: within a process, the value of a key present in the cache is never
\* replaced.
C7_CacheEntriesNeverReplaced ==
    [][pc' \notin {"constructed", "crashed"} =>
          \A k \in DOMAIN cache : k \in DOMAIN cache' /\ cache'[k] = cache[k]]_vars

C7_Witness ==
    /\ last_lookup # None
    /\ ~last_lookup[1].called
    /\ geocoder[last_lookup[1].address] = "flaky"
    /\ last_lookup[1].address \notin DOMAIN loaded
    /\ pc = "done"

\* the step is a geocode_address call that hits the cache
CacheHitStep ==
    /\ pc = "batch"
    /\ batch_stats.processed < BatchLen
    /\ ~NextIsMiss
    /\ batch_stats'.processed = batch_stats.processed + 1

\* C8: an external call goes out only when at least delay_between_requests
\* has passed since the previous one, and a call that hits the cache makes
\* no external call and does not touch the rate gate.
C8_RateGate ==
    [][/\ (pc' # "constructed" /\ TotalCalls' > TotalCalls) =>
             (since = None \/ since[1] >= delay_between_requests)
       /\ CacheHitStep => (calls' = calls /\ since' = since)]_vars

C8_Witness ==
    /\ pc = "batch"
    /\ batch_stats.processed = 2
    /\ TotalCalls = 2
    /\ last_lookup # None
    /\ last_lookup[1].called
    /\ since = Some(0)

\* the scenario of C9
Scenario ==
    /\ input = <<ROW_A, ROW_B, ROW_A>>
    /\ batch_size = 2
    /\ geocoder = [a \in Cleaned |-> IF a = <<"A">> THEN "found" ELSE "none"]
    /\ prevExit = "none"

\* C9: the end-to-end scenario ends with normalized forms A, B, A, two
\* batches, rows 1 and 3 at (1, 2), row 2 unresolved, one external call
\* each for A and B, the cache {A: (1, 2), B: failed}, an output mapping of
\* one entry and a success rate of 2/3.
C9_EndToEndScenario ==
    (Scenario /\ pc = "done") =>
        /\ [i \in 1..3 |-> addresses[i].cleaned] = <<<<"A">>, <<"B">>, <<"A">>>>
        /\ stats.total_batches = 2
        /\ stats.current_batch = 2
        /\ Coords(addresses[1]) = <<Some(1), Some(2)>>
        /\ Coords(addresses[3]) = <<Some(1), Some(2)>>
        /\ Coords(addresses[2]) = FAILED
        /\ calls = [a \in Cleaned |-> 1]
        /\ DOMAIN cache = {<<"A">>, <<"B">>}
        /\ cache[<<"A">>] = <<Some(1), Some(2)>>
        /\ cache[<<"B">>] = FAILED
        /\ DOMAIN CoordinateMap(addresses) = {<<"A", COMMA, SPACE, "c", "i", "t", "y">>}
        /\ outputs.written >= 2 => outputs.json = Some(CoordinateMap(addresses))
        /\ stats.successful_geocodes = 2
        /\ stats.processed_addresses = 3
        /\ success_rate(stats) = 66

C9_Witness ==
    /\ Scenario
    /\ pc = "done"
    /\ outputs.written = 3
    /\ Cardinality(DOMAIN outputs.json[1]) = 1
    /\ outputs.py[1].rate = 66

\* the four counters of ProcessingStats that follow the progress
Counters(st) ==
    <<st.processed_addresses, st.successful_geocodes, st.failed_geocodes,
      st.current_batch>>

\* the step is the end of process_batch
BatchEndStep ==
    /\ pc = "batch"
    /\ batch_stats.processed = BatchLen
    /\ pc' = "save_results"

\* C11: during a run processed_addresses, successful_geocodes,
\* failed_geocodes and current_batch never decrease, and they change only
\* at the end of process_batch: the steps that look the records of a batch
\* up leave all four as they were.
C11_CountersGrowOnlyAtBatchEnd ==
    [][pc \notin Exited =>
          /\ \A i \in 1..4 : Counters(stats')[i] >= Counters(stats)[i]
          /\ Counters(stats') # Counters(stats) => BatchEndStep]_vars

C11_Witness ==
    /\ pc = "done"
    /\ stats.current_batch >= 2
    /\ stats.failed_geocodes >= 1
    /\ stats.successful_geocodes >= 1
    /\ stats.processed_addresses = Len(addresses)

\* C12: the result write and the cache flush of batch i are called after
\* the last lookup of batch i and before the first lookup of batch i+1, and
\* the run reports completion only after the checkpoint of the last batch.
C12_CheckpointOrdering ==
    /\ pc = "batch" =>
          /\ flushed.results = batch_num - 1
          /\ flushed.cache = batch_num - 1
    /\ pc = "save_results" =>
          /\ batch_stats.processed = BatchLen
          /\ flushed.results = batch_num - 1
    /\ pc = "save_cache_open" =>
          /\ batch_stats.processed = BatchLen
          /\ flushed.results = batch_num
          /\ flushed.cache = batch_num - 1
    /\ pc \in {"save_cache_dump", "pacing"} =>
          /\ flushed.results = batch_num
          /\ flushed.cache = batch_num
    /\ pc = "done" =>
          /\ batch_num = stats.total_batches
          /\ flushed.results = stats.total_batches
          /\ flushed.cache = stats.total_batches
          /\ stats.processed_addresses = Len(addresses)

C12_Witness ==
    /\ pc = "done"
    /\ stats.total_batches = 2
    /\ flushed.results = 2
    /\ flushed.cache = 2
    /\ TotalCalls = 2
    /\ io_failures = 0

\* process_all_addresses is past its first test and has not failed
Processing ==
    pc \in {"batch", "save_results", "save_cache_open", "save_cache_dump",
            "pacing", "done"}

\* C13: the run enters processing only after a load that succeeded with at
\* least one address; when the input cannot be read or no address was
\* loaded the run reports failure, having made no external lookup, written
\* no result output and not flushed the cache.
C13_NoProcessingWithoutAddresses ==
    /\ Processing =>
          /\ Len(addresses) >= 1
          /\ Len(addresses) = Len(input)
          /\ \A i \in 1..Len(addresses) :
                /\ addresses[i].original = LoadedAddresses(input)[i].original
                /\ addresses[i].cleaned = LoadedAddresses(input)[i].cleaned
          /\ stats.total_addresses = Len(addresses)
    /\ pc = "failed" =>
          /\ addresses = <<>>
          /\ TotalCalls = 0
          /\ last_lookup = None
          /\ outputs = NoOutputs
          /\ cacheFile = AbsentFile
          /\ flushed = NotFlushed

C13_Witness ==
    /\ pc = "failed"
    /\ input = <<>>
    /\ stats.total_addresses = 0
    /\ io_failures = 0
    /\ outputs = NoOutputs

\* a step that starts a process leaves the view model built, its cache the
\* mapping of a readable file and the empty mapping otherwise
StartLoadsCache ==
    pc \in Exited =>
        /\ pc' = "constructed"
        /\ cacheFile.kind = "valid" => cache' = cacheFile.data
        /\ cacheFile.kind # "valid" => cache' = EmptyDict

\* C14: load_cache never fails the run: a process that starts with the
\* cache file missing, or with a file that cannot be read or deserialized,
\* has the empty mapping as its cache and goes on; it treats every address
\* as never attempted, so a completed run has looked every distinct
\* normalized address of the input up once.
C14_LoadCacheNeverFails ==
    /\ [][StartLoadsCache]_vars
    /\ [](pc = "done" /\ loaded = EmptyDict =>
             \A i \in 1..Len(addresses) : calls[addresses[i].cleaned] = 1)

C14_Witness ==
    /\ pc = "done"
    /\ prevExit = "crashed"
    /\ checkpointed # EmptyDict
    /\ loaded = EmptyDict
    /\ TotalCalls >= 1
    /\ stats.total_batches >= 2

\* a step of save_cache leaves the in-memory cache alone and ends in the
\* caller's next step, whether the file was written or not
SaveCacheStep ==
    pc \in {"save_cache_open", "save_cache_dump"} =>
        /\ cache' = cache
        /\ pc' \in {"save_cache_dump", AfterSave, "interrupted"}

\* C15: save_cache never changes the in-memory cache; when persisting
\* fails the error is absorbed, the batch loop goes on with the remaining
\* records and batches, and the run still completes with every record
\* processed.
C15_SaveCacheFailureAbsorbed ==
    /\ [][SaveCacheStep]_vars
    /\ [](pc = "done" =>
             /\ stats.processed_addresses = Len(addresses)
             /\ stats.current_batch = stats.total_batches
             /\ \A i \in 1..Len(addresses) :
                   DictGet(cache, addresses[i].cleaned)
                       = Some(Coords(addresses[i])))

C15_Witness ==
    /\ pc = "batch"
    /\ batch_num = 2
    /\ batch_stats.processed >= 1
    /\ flushed.cache = 1
    /\ cacheFile = AbsentFile
    /\ io_failures = 1

\* ------------------------------------------ CacheService, used directly
\* the values geocode_address stores
CacheValues ==
    {FAILED} \cup {<<Some(LocationOf(a).latitude),
                      Some(LocationOf(a).longitude)>> : a \in Cleaned}

\* a CacheService on a cache file that does not exist yet
InitCache ==
    /\ input = <<>>
    /\ batch_size = 1
    /\ save_progress_every = SAVE_EVERY
    /\ geocoder = [a \in Cleaned |-> "none"]
    /\ cacheFile = AbsentFile
    /\ outputs = NoOutputs
    /\ pc = "api"
    /\ ret = "api"
    /\ prevExit = "none"
    /\ cache = EmptyDict
    /\ loaded = EmptyDict
    /\ addresses = <<>>
    /\ stats = ZeroStats
    /\ batch_num = 0
    /\ batch_stats = ZeroBatchStats
    /\ since = None
    /\ calls = [a \in Cleaned |-> 0]
    /\ last_lookup = None
    /\ checkpointed = EmptyDict
    /\ flushed = NotFlushed
    /\ io_failures = 0
    /\ api = ApiIdle
    /\ workers = NoWorkers
    /\ lookup = NoLookup
    /\ CleanIdle

\* CacheService.set(key, value)
CacheSet ==
    /\ pc = "api"
    /\ \E key \in Cleaned, value \in CacheValues :
        /\ cache' = DictSet(cache, key, value)
        /\ api' = [api EXCEPT
               !.last_set = [k \in DOMAIN api.last_set \cup {key} |->
                               IF k = key THEN value ELSE api.last_set[k]],
               !.got = None]
    /\ UNCHANGED <<input, batch_size, save_progress_every, geocoder, cacheFile, outputs, pc, ret,
                   prevExit, loaded, addresses, stats, batch_num, batch_stats,
                   since, calls, last_lookup, checkpointed, flushed,
                   io_failures, cvars, workers, lookup>>

\* CacheService.get(key)
CacheGet ==
    /\ pc = "api"
    /\ \E key \in Cleaned :
        api' = [api EXCEPT
                   !.got = Some([key |-> key, value |-> DictGet(cache, key)])]
    /\ UNCHANGED <<pvars, cvars, workers, lookup>>

\* CacheService.save_cache() is called
CallSaveCache ==
    /\ pc = "api"
    /\ pc' = "save_cache_open"
    /\ ret' = "api"
    /\ UNCHANGED <<input, batch_size, save_progress_every, geocoder, cacheFile, outputs,
                   prevExit, cache, loaded, addresses, stats, batch_num,
                   batch_stats, since, calls, last_lookup, checkpointed,
                   flushed, io_failures, cvars, workers, api, lookup>>

\* a new CacheService on the same file: __init__, then load_cache; its
\* caller expects what the last save_cache wrote, if that one succeeded
NewInstance ==
    /\ pc = "api"
    /\ cache' = load_cache(cacheFile)
    /\ loaded' = cache'
    /\ LET kept == IF api.save_ok THEN api.persisted ELSE EmptyDict
       IN api' = [last_set |-> kept, persisted |-> kept,
                  save_ok |-> api.save_ok, got |-> None, reloaded |-> TRUE]
    /\ UNCHANGED <<input, batch_size, save_progress_every, geocoder, cacheFile, outputs, pc, ret,
                   prevExit, addresses, stats, batch_num, batch_stats, since,
                   calls, last_lookup, checkpointed, flushed, io_failures,
                   cvars, workers, lookup>>

NextCache ==
    \/ CacheSet
    \/ CacheGet
    \/ CallSaveCache
    \/ SaveCacheOpen
    \/ SaveCacheDump
    \/ NewInstance

SpecCache == InitCache /\ [][NextCache]_vars

\* C16: after set(k, v), get(k) returns v until the next set(k, ...), in
\* the same CacheService and in a new one that calls load_cache on the same
\* file after a successful save_cache.
C16_CacheRoundTrip ==
    /\ \A k \in DOMAIN api.last_set :
          DictGet(cache, k) = Some(api.last_set[k])
    /\ (api.got # None /\ api.got[1].key \in DOMAIN api.last_set) =>
          api.got[1].value = Some(api.last_set[api.got[1].key])

C16_Witness ==
    /\ pc = "api"
    /\ api.reloaded
    /\ api.save_ok
    /\ api.got # None
    /\ api.got[1].key \in DOMAIN api.last_set
    /\ api.got[1].value = Some(FAILED)
    /\ \E k \in DOMAIN api.last_set : api.last_set[k] # FAILED
    /\ cacheFile.kind = "valid"

\* save_results has returned and no record has changed since
JustSaved ==
    pc \in {"save_cache_open", "save_cache_dump", "pacing", "done"}

\* the records that are resolved
Resolved == {i \in 1..Len(addresses) : is_geocoded(addresses[i])}

\* m has exactly the original addresses of the resolved records as keys,
\* each with the "lat,lon" text of a resolved record of that address
MapsResolved(m) ==
    /\ DOMAIN m = {addresses[i].original : i \in Resolved}
    /\ \A k \in DOMAIN m :
          \E i \in Resolved :
              /\ addresses[i].original = k
              /\ m[k] = <<addresses[i].latitude[1], COMMA,
                          addresses[i].longitude[1]>>

\* C19: every output mapping written by save_results has as keys exactly
\* the original addresses of the records resolved at that moment, each
\* mapped to the "lat,lon" text of such a record; the original address of
\* an unresolved record appears only when a resolved record shares it.
C19_MappingHoldsResolvedRecords ==
    JustSaved =>
        /\ outputs.written >= 2 => MapsResolved(outputs.json[1])
        /\ outputs.written >= 3 => MapsResolved(outputs.py[1].map)

C19_Witness ==
    /\ pc = "pacing"
    /\ outputs.written = 3
    /\ \E i \in Resolved, j \in 1..Len(addresses) :
          /\ j \notin Resolved
          /\ addresses[j].original = addresses[i].original
    /\ \E j \in 1..Len(addresses) :
          /\ j \notin Resolved
          /\ addresses[j].original \notin DOMAIN outputs.json[1]
          /\ addresses[j].original \notin DOMAIN outputs.py[1].map

\* print_final_summary: successful_count, the number of geocoded records
successful_count(as) ==
    Cardinality({i \in 1..Len(as) : is_geocoded(as[i])})

\* print_final_summary: the "entries" figures printed for the two mappings
print_final_summary ==
    [json_entries |-> successful_count(addresses),
     python_entries |-> successful_count(addresses)]

\* main() has printed the final summary of a run that wrote all its outputs
SummaryPrinted == pc = "done" /\ outputs.written = 3

\* C20: the entry counts reported for the output mapping, in the header
\* comment of the Python file and in the "entries" figures of the final
\* summary, equal the number of entries in the written mapping.
C20_ReportedEntriesAreMappingSize ==
    SummaryPrinted =>
        /\ print_final_summary.json_entries
              = Cardinality(DOMAIN outputs.json[1])
        /\ print_final_summary.python_entries
              = Cardinality(DOMAIN outputs.py[1].map)
        /\ outputs.py[1].total = Cardinality(DOMAIN outputs.py[1].map)

\* the summary figures alone: they count geocoded records, and so differ
\* from the mapping only when two geocoded rows have the same original
C20_SummaryCountsRecords ==
    SummaryPrinted =>
        /\ print_final_summary.json_entries = Cardinality(Resolved)
        /\ (print_final_summary.json_entries
               # Cardinality(DOMAIN outputs.json[1]))
             => \E i, j \in Resolved :
                   i # j /\ addresses[i].original = addresses[j].original

\* two geocoded rows share an original: two entries reported, one written
C20_SharedOriginal ==
    /\ SummaryPrinted
    /\ print_final_summary.json_entries = 2
    /\ Cardinality(DOMAIN outputs.json[1]) = 1
    /\ Cardinality(DOMAIN outputs.py[1].map) = 1

\* what a step of the batch loop leaves alone: the number and order of
\* the records, their original and cleaned fields, and the coordinates of
\* the records outside the current batch
BatchFrame ==
    /\ Len(addresses') = Len(addresses)
    /\ \A k \in 1..Len(addresses) :
          /\ addresses'[k].original = addresses[k].original
          /\ addresses'[k].cleaned = addresses[k].cleaned
          /\ k \notin batch_addresses(batch_num) =>
                Coords(addresses'[k]) = Coords(addresses[k])

\* C24: processing batch i changes only the latitude and longitude of the
\* records of batch i; the original and cleaned fields of every record,
\* the coordinates of the records of other batches and the number and order
\* of the records stay as they are.
C24_BatchChangesOnlyItsCoordinates ==
    [][(Processing /\ batch_num >= 1) => BatchFrame]_vars

C24_Witness ==
    /\ pc = "batch"
    /\ batch_num = 2
    /\ batch_stats.processed = 1
    /\ Len(addresses) = 3
    /\ batch_size = 1
    /\ addresses[3].cleaned = addresses[2].cleaned
    /\ is_geocoded(addresses[2])
    /\ ~is_geocoded(addresses[3])
    /\ ~is_geocoded(addresses[1])

\* the records of the batches 1..n
RecordsUpTo(n) == UNION {batch_addresses(j) : j \in 1..n}

\* process_batch of the current batch has returned
BatchCompleted ==
    pc \in {"save_results", "save_cache_open", "save_cache_dump", "pacing",
            "done"}

\* C25: after each completed batch i of a run, processed_addresses is the
\* number of records in batches 1..i, successful_geocodes the number of
\* those that are resolved, failed_geocodes their difference and
\* current_batch is i; at completion processed_addresses equals
\* total_addresses.
C25_StatsCountCompletedBatches ==
    /\ stats.current_batch >= 1 =>
          LET records == RecordsUpTo(stats.current_batch) IN
          /\ stats.processed_addresses = Cardinality(records)
          /\ stats.successful_geocodes
                = Cardinality({k \in records : is_geocoded(addresses[k])})
          /\ stats.failed_geocodes
                = stats.processed_addresses - stats.successful_geocodes
    /\ (BatchCompleted /\ ret # "batch") => stats.current_batch = batch_num
    /\ (pc = "batch" \/ ret = "batch") =>
          stats.current_batch = batch_num - 1
    /\ pc = "done" => stats.processed_addresses = stats.total_addresses

C25_Witness ==
    /\ pc = "done"
    /\ batch_size = 2
    /\ stats.total_addresses = 3
    /\ stats.current_batch = 2
    /\ stats.processed_addresses = 3
    /\ stats.successful_geocodes = 2
    /\ stats.failed_geocodes = 1

\* the step is a save_results call in which a write raised
SaveResultsFailed ==
    /\ flushed'.results > flushed.results
    /\ outputs'.written < 3

\* after a failed save_results the loop is where it is after a successful
\* one: about to flush the cache for the batch, nothing else changed
SaveResultsAbsorbed ==
    SaveResultsFailed =>
        /\ pc' = "save_cache_open"
        /\ ret' = "checkpoint"
        /\ UNCHANGED <<cache, addresses, stats, batch_num, cacheFile>>

\* C28: a failure while save_results writes the result outputs is
\* absorbed: the batch loop continues, the cache is still flushed for that
\* batch, and process_all_addresses does not fail because of it: it
\* returns True with every batch processed, even when no result write
\* succeeded.
C28_SaveResultsFailureAbsorbed ==
    /\ [][SaveResultsAbsorbed]_vars
    /\ [](pc \in {"pacing", "done"} =>
             /\ flushed.results = batch_num
             /\ flushed.cache = batch_num)
    /\ [](pc = "failed" => batch_num = 0)
    /\ [](pc = "done" => stats.current_batch = stats.total_batches)

C28_Witness ==
    /\ pc = "done"
    /\ outputs = NoOutputs
    /\ io_failures = 1
    /\ flushed.cache = stats.total_batches
    /\ cache # EmptyDict
    /\ cacheFile = ValidFile(cache)

\* process_all_addresses has returned True
ReturnedTrue == pc = "done"

\* process_all_addresses has returned False, or load_addresses has and
\* main has not called it
ReturnedFalse == pc = "failed"

\* C29: for every input and every behaviour of the external lookup in
\* which each call returns or raises, process_all_addresses eventually
\* returns; it returns True only after every batch 1..total_batches has
\* been processed and checkpointed, and False otherwise.
C29_ProcessAllTerminates ==
    /\ <>(ReturnedTrue \/ ReturnedFalse)
    /\ [](ReturnedTrue =>
             /\ stats.total_batches >= 1
             /\ batch_num = stats.total_batches
             /\ stats.current_batch = stats.total_batches
             /\ stats.processed_addresses = Len(addresses)
             /\ flushed.results = stats.total_batches
             /\ flushed.cache = stats.total_batches
             /\ \A i \in 1..Len(addresses) :
                   addresses[i].cleaned \in DOMAIN cache)
    /\ [](ReturnedFalse =>
             /\ stats.current_batch = 0
             /\ flushed = NotFlushed)
    /\ [](addresses # <<>> => ~ReturnedFalse)

C29_Witness ==
    /\ ReturnedTrue
    /\ stats.total_batches = 3
    /\ flushed.cache = 3
    /\ \E a \in Cleaned : geocoder[a] = "flaky" /\ calls[a] = 1
    /\ io_failures = 1

\* the turns of the loop of process_all_addresses
BatchNumbers == 1..stats.total_batches

\* C23: for n >= 1 addresses and batch size b, the batches are contiguous
\* slices in input order that cover every record exactly once;
\* total_batches is ceil(n / b), every batch but the last has b records and
\* the last has between 1 and b; the records are looked up in that order.
C23_BatchesPartitionTheInput ==
    (addresses # <<>> /\ pc \notin {"idle", "constructed"}) =>
        LET n == Len(addresses)
            b == batch_size
            T == stats.total_batches
        IN /\ T * b >= n /\ (T - 1) * b < n
           /\ \A i \in BatchNumbers :
                 LET slice == batch_addresses(i) IN
                 /\ \A x, y \in slice : \A z \in x..y : z \in slice
                 /\ i < T => Cardinality(slice) = b
                 /\ i = T => Cardinality(slice) \in 1..b
                 /\ \A j \in BatchNumbers : \A x \in slice :
                       \A y \in batch_addresses(j) : i < j => x < y
           /\ \A k \in 1..n :
                 Cardinality({i \in BatchNumbers : k \in batch_addresses(i)})
                    = 1
           /\ batch_num >= 1 =>
                 batch_addresses(batch_num) = (start_idx + 1)..end_idx
           /\ (pc = "batch" /\ batch_stats.processed >= 1) =>
                 /\ last_lookup[1].index
                       = stats.processed_addresses + batch_stats.processed
                 /\ last_lookup[1].index \in batch_addresses(batch_num)

C23_Witness ==
    /\ pc = "batch"
    /\ Len(addresses) = 3
    /\ batch_size = 2
    /\ stats.total_batches = 2
    /\ batch_num = 2
    /\ batch_addresses(2) = {3}
    /\ last_lookup[1].index = 3

\* the step calls time.sleep(2)
PauseStep == flushed'.paused > flushed.paused

\* a pause follows the checkpoint of a batch that is not the last, and
\* comes before anything of the next batch
PauseBetweenBatches ==
    PauseStep =>
        /\ stats.current_batch = batch_num
        /\ flushed.results = batch_num
        /\ flushed.cache = batch_num
        /\ batch_num < stats.total_batches
        /\ flushed'.paused = batch_num
        /\ batch_num' = batch_num + 1
        /\ batch_stats' = ZeroBatchStats
        /\ calls' = calls

\* C22: the pause between batches is made exactly once between batch i and
\* batch i+1, after the checkpoint of batch i and before the first lookup
\* of batch i+1; there is none after the last batch and none between two
\* lookups of one batch.
C22_OnePauseBetweenBatches ==
    /\ [][PauseBetweenBatches]_vars
    /\ [](batch_num >= 1 => flushed.paused = batch_num - 1)
    /\ [](pc = "done" => flushed.paused = stats.total_batches - 1)

C22_Witness ==
    /\ pc = "done"
    /\ stats.total_batches = 3
    /\ flushed.paused = 2
    /\ TotalCalls = 2

\* the step is one turn of the loop of process_batch
RecordStep ==
    /\ pc = "batch"
    /\ batch_stats'.processed = batch_stats.processed + 1

\* the step calls save_cache from within process_batch
FlushInBatch == pc' = "save_cache_open" /\ ret' = "batch"

\* C18: with save_progress_every = N in the configuration, process_batch
\* flushes the cache after a record exactly when the number of records
\* processed in the batch is a multiple of N.
C18_FlushCadenceIsConfigured ==
    [][RecordStep =>
          (FlushInBatch <=>
              batch_stats'.processed % save_progress_every = 0)]_vars

\* ------------------------------- geocode_address, called by two threads
\* the address each of the two threads resolves
WorkerAddress == <<<<"A">>, <<"B">>>>

Workers == DOMAIN WorkerAddress

\* the mappings a process can have loaded
Caches == UNION {[d -> CacheValues] : d \in SUBSET Cleaned}

\* a store of the entry into the mapping the thread saw when it called get
StoreEntry_stale(current, seen, key, value) == DictSet(seen, key, value)

\* CacheService.set: self._cache[key] = value is one store into the dict as
\* it is at that moment, which the interpreter does not interleave with
\* another thread's store
StoreEntry(current, seen, key, value) == DictSet(current, key, value)

\* both threads are about to call geocode_address
InitWorkers ==
    /\ input = <<>>
    /\ batch_size = 1
    /\ save_progress_every = SAVE_EVERY
    /\ geocoder \in [Cleaned -> Behaviours]
    /\ cacheFile = AbsentFile
    /\ outputs = NoOutputs
    /\ pc = "workers"
    /\ ret = "checkpoint"
    /\ prevExit = "none"
    /\ cache \in Caches
    /\ loaded = cache
    /\ addresses = <<>>
    /\ stats = ZeroStats
    /\ batch_num = 0
    /\ batch_stats = ZeroBatchStats
    /\ since = None
    /\ calls = [a \in Cleaned |-> 0]
    /\ last_lookup = None
    /\ checkpointed = EmptyDict
    /\ flushed = NotFlushed
    /\ io_failures = 0
    /\ api = ApiIdle
    /\ workers = [w \in Workers |->
                     [pc |-> "get", address |-> WorkerAddress[w],
                      seen |-> EmptyDict, result |-> None]]
    /\ lookup = NoLookup
    /\ CleanIdle

\* geocode_address: cached_result = self.cache_service.get(address), and
\* the return of a hit
WorkerGet(w) ==
    /\ workers[w].pc = "get"
    /\ LET cached_result == DictGet(cache, workers[w].address) IN
       workers' = [workers EXCEPT
           ![w].seen = cache,
           ![w].result = cached_result,
           ![w].pc = IF cached_result # None THEN "returned" ELSE "call"]
    /\ UNCHANGED <<pvars, cvars, api, lookup>>

\* geocode_address: location = self.geocode(address), through the
\* RateLimiter both threads share
WorkerCall(w) ==
    /\ workers[w].pc = "call"
    /\ RateLimiterReady(since)
    /\ \E response \in Responses(workers[w].address) :
        workers' = [workers EXCEPT
            ![w].result =
                Some(IF response.kind = "location"
                     THEN <<Some(response.latitude), Some(response.longitude)>>
                     ELSE FAILED),
            ![w].pc = "set"]
    /\ calls' = [calls EXCEPT ![workers[w].address] = @ + 1]
    /\ since' = Some(0)
    /\ UNCHANGED <<input, batch_size, save_progress_every, geocoder, cacheFile, outputs, pc, ret,
                   prevExit, cache, loaded, addresses, stats, batch_num,
                   batch_stats, last_lookup, checkpointed, flushed,
                   io_failures, cvars, api, lookup>>

\* the RateLimiter lets a thread sleep for what is left of the delay
WorkerSleep ==
    /\ \E w \in Workers : workers[w].pc = "call"
    /\ ~RateLimiterReady(since)
    /\ since' = Some(delay_between_requests)
    /\ UNCHANGED <<input, batch_size, save_progress_every, geocoder, cacheFile, outputs, pc, ret,
                   prevExit, cache, loaded, addresses, stats, batch_num,
                   batch_stats, calls, last_lookup, checkpointed, flushed,
                   io_failures, cvars, api, workers, lookup>>

\* geocode_address: self.cache_service.set(address, result), and the return
WorkerSet(w) ==
    /\ workers[w].pc = "set"
    /\ cache' = StoreEntry(cache, workers[w].seen, workers[w].address,
                           workers[w].result[1])
    /\ workers' = [workers EXCEPT ![w].pc = "returned"]
    /\ UNCHANGED <<input, batch_size, save_progress_every, geocoder, cacheFile, outputs, pc, ret,
                   prevExit, loaded, addresses, stats, batch_num, batch_stats,
                   since, calls, last_lookup, checkpointed, flushed,
                   io_failures, cvars, api, lookup>>

NextWorkers ==
    \/ \E w \in Workers : WorkerGet(w)
    \/ \E w \in Workers : WorkerCall(w)
    \/ WorkerSleep
    \/ \E w \in Workers : WorkerSet(w)

SpecWorkers == InitWorkers /\ [][NextWorkers]_vars

\* C17: when two threads resolve different addresses through the shared
\* CacheService, no update is lost: once both geocode_address calls have
\* returned, the cache holds for each address the entry its call returned,
\* and every entry the cache held before is still there.
C17_NoLostUpdate ==
    (\A w \in Workers : workers # NoWorkers /\ workers[w].pc = "returned") =>
        /\ \A w \in Workers :
              DictGet(cache, workers[w].address) = workers[w].result
        /\ \A k \in DOMAIN loaded : DictGet(cache, k) = Some(loaded[k])

C17_Witness ==
    /\ workers # NoWorkers
    /\ \A w \in Workers :
          /\ workers[w].pc = "returned"
          /\ workers[w].seen = EmptyDict
    /\ TotalCalls = 2
    /\ cache[<<"A">>] # FAILED
    /\ cache[<<"B">>] = FAILED

\* ------------------------------------------------- clean_address, applied
\* the pipeline at rest
PipelineIdle ==
    /\ input = <<>>
    /\ batch_size = 1
    /\ save_progress_every = SAVE_EVERY
    /\ geocoder = [a \in Cleaned |-> "none"]
    /\ cacheFile = AbsentFile
    /\ outputs = NoOutputs
    /\ pc = "idle"
    /\ ret = "checkpoint"
    /\ prevExit = "none"
    /\ cache = EmptyDict
    /\ loaded = EmptyDict
    /\ addresses = <<>>
    /\ stats = ZeroStats
    /\ batch_num = 0
    /\ batch_stats = ZeroBatchStats
    /\ since = None
    /\ calls = [a \in Cleaned |-> 0]
    /\ last_lookup = None
    /\ checkpointed = EmptyDict
    /\ flushed = NotFlushed
    /\ api = ApiIdle
    /\ workers = NoWorkers
    /\ io_failures = 0

InitClean ==
    /\ raw \in StringsUpTo(MaxLen)
    /\ once = <<>>
    /\ twice = <<>>
    /\ cpc = "raw"
    /\ lookup = NoLookup
    /\ PipelineIdle

CleanOnce ==
    /\ cpc = "raw"
    /\ once' = clean_address(raw)
    /\ cpc' = "once"
    /\ UNCHANGED <<raw, twice, pvars, api, workers, lookup>>

CleanTwice ==
    /\ cpc = "once"
    /\ twice' = clean_address(once)
    /\ cpc' = "twice"
    /\ UNCHANGED <<raw, once, pvars, api, workers, lookup>>

NextClean == CleanOnce \/ CleanTwice

SpecClean == InitClean /\ [][NextClean]_vars

\* C10: for every input x, clean_address(x) contains neither marker and
\* clean_address(clean_address(x)) = clean_address(x).
C10_CleanedHasNoMarkerAndIsIdempotent ==
    /\ cpc \in {"once", "twice"} =>
          /\ ~Contains(once, MARKER_JUMIA)
          /\ ~Contains(once, MARKER_POINT)
    /\ cpc = "twice" => twice = once

\* ----------------- geocode_address and get_lat_long_cached, applied once
\* latitudes and longitudes, in degrees, the external service may answer
\* with: the ends of the valid ranges and a value beyond either end
Latitudes == {-91, -90, 0, 90, 91}
Longitudes == {-181, -180, 0, 180, 181}

\* Validator.is_valid_coordinates
is_valid_coordinates(lat, lng) ==
    /\ -90 <= lat /\ lat <= 90
    /\ -180 <= lng /\ lng <= 180

\* what self.geocode(address) may answer: a location, None, or an exception
LookupResponses ==
    {[kind |-> "location", latitude |-> lat, longitude |-> lng] :
        lat \in Latitudes, lng \in Longitudes}
    \cup {NoMatch, Raises}

\* main_legacy.get_lat_long_cached on the dict `c`, where `response` is
\* what geocode(address) answers if it is called
get_lat_long_cached(c, address, response) ==
    IF address \in DOMAIN c
    THEN [result |-> c[address], cache |-> c,
          called |-> FALSE, raised |-> FALSE]
    ELSE IF response.kind = "location"
         THEN LET result == <<Some(response.latitude),
                              Some(response.longitude)>>
              IN [result |-> result, cache |-> DictSet(c, address, result),
                  called |-> TRUE, raised |-> FALSE]
         ELSE IF response.kind = "raise"
              THEN [result |-> FAILED, cache |-> DictSet(c, address, FAILED),
                    called |-> TRUE, raised |-> FALSE]
              ELSE [result |-> FAILED, cache |-> c,
                    called |-> TRUE, raised |-> FALSE]

\* a cache, an address and an answer of the external service; neither
\* function has been called
InitLookup ==
    /\ lookup \in [cache : Caches, address : Cleaned,
                   response : LookupResponses,
                   service : {None}, service_again : {None},
                   legacy : {None}, legacy_again : {None}]
    /\ PipelineIdle
    /\ CleanIdle

\* GeocodingService.geocode_address(address)
ServiceCall ==
    /\ lookup.service = None
    /\ lookup' = [lookup EXCEPT !.service =
           Some(geocode_address(lookup.cache, lookup.address,
                                lookup.response))]
    /\ UNCHANGED <<pvars, cvars, api, workers>>

\* geocode_address(address) once more, on the cache the first call left
ServiceCallAgain ==
    /\ lookup.service # None
    /\ lookup.service_again = None
    /\ lookup' = [lookup EXCEPT !.service_again =
           Some(geocode_address(lookup.service[1].cache, lookup.address,
                                lookup.response))]
    /\ UNCHANGED <<pvars, cvars, api, workers>>

\* get_lat_long_cached(address, cache)
LegacyCall ==
    /\ lookup.legacy = None
    /\ lookup' = [lookup EXCEPT !.legacy =
           Some(get_lat_long_cached(lookup.cache, lookup.address,
                                    lookup.response))]
    /\ UNCHANGED <<pvars, cvars, api, workers>>

\* get_lat_long_cached(address, cache) once more, on the same dict
LegacyCallAgain ==
    /\ lookup.legacy # None
    /\ lookup.legacy_again = None
    /\ lookup' = [lookup EXCEPT !.legacy_again =
           Some(get_lat_long_cached(lookup.legacy[1].cache, lookup.address,
                                    lookup.response))]
    /\ UNCHANGED <<pvars, cvars, api, workers>>

NextLookup ==
    \/ ServiceCall
    \/ ServiceCallAgain
    \/ LegacyCall
    \/ LegacyCallAgain

SpecLookup == InitLookup /\ [][NextLookup]_vars

\* a (latitude, longitude) pair is the failed marker or lies in the ranges
ValidOutcome(result) ==
    result # FAILED => is_valid_coordinates(result[1][1], result[2][1])

\* C21: whatever the external lookup answers, a resolved outcome that
\* geocode_address returns (and process_batch assigns to the record) or
\* stores in the cache has its latitude in [-90, 90] and its longitude in
\* [-180, 180].
C21_ResolvedOutcomesInRange ==
    (lookup # NoLookup /\ lookup.service # None) =>
        /\ ValidOutcome(lookup.service[1].result)
        /\ \A k \in DOMAIN lookup.service[1].cache :
              ValidOutcome(lookup.service[1].cache[k])

\* the answer of the external service is what is returned and stored
C21_AnswerStoredAsIs ==
    (lookup # NoLookup /\ lookup.service # None
        /\ lookup.service[1].called /\ lookup.response.kind = "location") =>
        LET answer == <<Some(lookup.response.latitude),
                        Some(lookup.response.longitude)>>
        IN /\ lookup.service[1].result = answer
           /\ lookup.service[1].cache[lookup.address] = answer

\* C27: get_lat_long_cached and geocode_address return the same outcome
\* and leave the same cache contents, for every address, initial cache and
\* answer of the external service, and a following call for the same
\* address makes an external call in one iff it does in the other.
C27_LegacyLookupEquivalent ==
    /\ (lookup # NoLookup /\ lookup.service # None /\ lookup.legacy # None) =>
          /\ lookup.service[1].result = lookup.legacy[1].result
          /\ lookup.service[1].cache = lookup.legacy[1].cache
    /\ (lookup # NoLookup /\ lookup.service_again # None
           /\ lookup.legacy_again # None) =>
          lookup.service_again[1].called = lookup.legacy_again[1].called

\* the two agree whenever the external service finds a location or raises,
\* and on every cache hit
C27_EquivalentUnlessNoMatch ==
    (lookup # NoLookup /\ lookup.service # None /\ lookup.legacy # None
        /\ (lookup.response.kind # "none"
              \/ lookup.address \in DOMAIN lookup.cache)) =>
        /\ lookup.service[1] = lookup.legacy[1]
        /\ (lookup.service_again # None /\ lookup.legacy_again # None) =>
              lookup.service_again[1] = lookup.legacy_again[1]

\* ------------------------- GeocodingViewModel, its methods called again
\* the caller goes on while the records processed so far, over all calls,
\* are fewer than MaxRuns times the input
MayCallAgain ==
    stats.processed_addresses < MaxRuns * stats.total_addresses

\* load_addresses called again on the same view model
Reload ==
    /\ pc \in {"loaded", "done"}
    /\ MayCallAgain
    /\ \E readable \in MayFail :
        /\ io_failures' = Failures(readable)
        /\ IF readable
           THEN /\ addresses' = LoadedAddresses(input)
                /\ stats' = [stats EXCEPT
                       !.total_addresses = Len(input),
                       !.total_batches = TotalBatches(Len(input), batch_size)]
                /\ pc' = "loaded"
           ELSE UNCHANGED <<addresses, stats, pc>>
    /\ UNCHANGED <<input, batch_size, save_progress_every, geocoder,
                   cacheFile, outputs, ret, prevExit, cache, loaded,
                   batch_num, batch_stats, since, calls, last_lookup,
                   checkpointed, flushed, cvars, workers, api, lookup>>

\* process_all_addresses called again after it returned True
ProcessAgain ==
    /\ pc = "done"
    /\ MayCallAgain
    /\ batch_num' = 1
    /\ batch_stats' = ZeroBatchStats
    /\ flushed' = NotFlushed
    /\ pc' = "batch"
    /\ UNCHANGED <<input, batch_size, save_progress_every, geocoder,
                   cacheFile, outputs, ret, prevExit, cache, loaded,
                   addresses, stats, since, calls, last_lookup, checkpointed,
                   io_failures, cvars, workers, api, lookup>>

\* one view model, with the default flush cadence and an external lookup
\* that answers each address the same way every time
InitViewModel ==
    /\ Init
    /\ Len(input) <= MaxResumeRows
    /\ save_progress_every = SAVE_EVERY
    /\ Deterministic

NextViewModel == Run \/ Reload \/ ProcessAgain

SpecViewModel == InitViewModel /\ [][NextViewModel]_vars

\* C26: after any sequence of load_addresses and process_all_addresses
\* calls on one view model, processed_addresses <= total_addresses and
\* successful_geocodes <= processed_addresses, and progress_percentage and
\* success_rate are within 0..100.
C26_StatsStayWithinTotals ==
    /\ stats.processed_addresses <= stats.total_addresses
    /\ stats.successful_geocodes <= stats.processed_addresses
    /\ progress_percentage(stats) \in 0..100
    /\ success_rate(stats) \in 0..100

\* the part that holds over every sequence of calls
C26_SuccessfulWithinProcessed ==
    /\ stats.successful_geocodes <= stats.processed_addresses
    /\ success_rate(stats) \in 0..100
    /\ stats.failed_geocodes
          = stats.processed_addresses - stats.successful_geocodes

\* process_all_addresses has returned True twice
C26_ProcessedTwice ==
    /\ pc = "done"
    /\ stats.total_addresses = 1
    /\ stats.processed_addresses = 2
    /\ progress_percentage(stats) = 200

====
